---- MODULE Spec2Model ----
(***************************************************************************)
(* The cascading filter pipeline of the weather dashboard: the loaders,   *)
(* the country-to-continent resolvers, the sidebar controls of each page  *)
(* and the filtered subset each page computes.                             *)
(*                                                                         *)
(* One behaviour is a session over one CSV snapshot (src).  A page's      *)
(* script is run top to bottom; pc is the script's position and each      *)
(* action is the next block of the script, with the values the user gives *)
(* to the widgets of that block drawn from the widget's options.          *)
(*                                                                         *)
(* Measures are stored in halves of a unit (5 is 2.5) so that the         *)
(* truncation int() of the slider bounds is not the identity.  The CSV    *)
(* has no continent column: the column is derived (spec section 3).       *)
(*                                                                         *)
(* Four further specifications follow the parts of the program that a     *)
(* session over one snapshot does not exercise: LoadSpec, the loaders     *)
(* under st.cache_data and the CSV file on disk; RankSpec, the Top-N      *)
(* tables of Analytics and Reports; BucketSpec, the category bucketing of *)
(* the air-quality readings; TabSpec, the six tabs of the main dashboard. *)
(* Each holds the variables of the others at their idle values.  FairSpec *)
(* is the session in which a script that can take its next step does.     *)
(***************************************************************************)
EXTENDS Integers, FiniteSets, Sequences, TLC

\* Bound: the number of rows of the CSV snapshot.
MaxRows == 2

\* NaN / None / NaT of pandas: a missing value.
Null == -1000
\* A column the table does not have.
NoCol == "<no column>"
\* A numeric column the table does not have.
NoNum == -2000
\* A CSV cell of a numeric column that holds text.
BadNum == -3000

VARIABLES src, page, pc, errAt, userLoc, df, opts, sel, rng, dates,
          filtered, trend, warn,
          \* st.cache_data and the CSV file on disk
          disk, cache, reads, ret,
          \* the Top-N tables of a filtered table
          table, ranking,
          \* the category bucketing of air-quality readings
          reading, bucket,
          \* the keyed widgets and the frames of the six tabs of app.py
          widgets, tabs

\* The session over one snapshot: the page scripts.
pipeVars == <<src, page, pc, errAt, userLoc, df, opts, sel, rng, dates,
              filtered, trend, warn>>
\* The load cache.
loadVars == <<disk, cache, reads, ret>>
\* The rankings.
rankVars == <<table, ranking>>
\* The bucketing.
bucketVars == <<reading, bucket>>
\* The tabs of the main dashboard.
tabVars == <<widgets, tabs>>

vars == <<pipeVars, loadVars, rankVars, bucketVars, tabVars>>

----------------------------------------------------------------------------
(* The CSV snapshot.                                                       *)

Date(y, m, d) == [kind |-> "date", y |-> y, m |-> m, d |-> d]
\* An empty last_updated cell: read_csv makes it NaT.
NoDate == [kind |-> "empty", y |-> 0, m |-> 0, d |-> 0]
\* A last_updated cell that holds text no parser reads.
BadDate == [kind |-> "text", y |-> 0, m |-> 0, d |-> 0]

Row(id, country, loc, lat, upd, temp, hum, wind, uv, aqi, pm25, pm10) ==
    [id |-> id, country |-> country, location_name |-> loc,
     latitude |-> lat, longitude |-> 10, last_updated |-> upd,
     temperature_celsius |-> temp, humidity |-> hum, wind_mph |-> wind,
     uv_index |-> uv, precip_mm |-> 0, visibility_km |-> 20,
     aqi |-> aqi, pm25 |-> pm25, pm10 |-> pm10]

Pool ==
    { Row(1, "India",       "Delhi",  57, Date(2024, 5, 16),
          4, 2, 2, 0, 2, 60, 101),
      Row(2, "India",       "Mumbai", 38, Date(2023, 5, 17),
          2, 4, 2, Null, 1, 61, 100),
      Row(3, "France",      "Paris",  97, Date(2024, 6, 16),
          Null, 2, 0, 0, 1, 60, Null),
      Row(4, "Atlantis",    "Lost",   20, BadDate,
          -3, 2, 2, 2, Null, Null, 100),
      Row(5, "Timor-Leste", "Dili",   BadNum, NoDate,
          4, Null, 2, 0, 1, 60, 100),
      Row(6, "France",      "Lyon",   45, Date(2024, 6, 17),
          4, 4, 2, 2, 2, 62, 102) }

Snapshots == {t \in SUBSET Pool : Cardinality(t) \in 1..MaxRows}

----------------------------------------------------------------------------
(* pycountry_convert, as far as the snapshot's countries reach it.  KeyErr *)
(* stands for the KeyError the library raises.                             *)

KeyErr == "<KeyError>"

pc_country_name_to_country_alpha2(name) ==
    CASE name = "India" -> "IN"
      [] name = "France" -> "FR"
      [] name = "United States" -> "US"
      [] name = "Timor-Leste" -> "TL"
      [] OTHER -> KeyErr

\* The library has no continent for TL.
pc_country_alpha2_to_continent_code(alpha2) ==
    CASE alpha2 = "IN" -> "AS"
      [] alpha2 = "FR" -> "EU"
      [] alpha2 = "US" -> "NA"
      [] OTHER -> KeyErr

pc_country_alpha2_to_country_name(alpha2) ==
    CASE alpha2 = "IN" -> "India"
      [] alpha2 = "FR" -> "France"
      [] alpha2 = "US" -> "United States"
      [] alpha2 = "TL" -> "Timor-Leste"
      [] OTHER -> KeyErr

continent_map(code) ==
    CASE code = "AF" -> "Africa"
      [] code = "AS" -> "Asia"
      [] code = "EU" -> "Europe"
      [] code = "NA" -> "North America"
      [] code = "OC" -> "Oceania"
      [] code = "SA" -> "South America"
      [] code = "AN" -> "Antarctica"
      [] OTHER -> KeyErr

pc_convert_continent_code_to_continent_name(code) ==
    CASE code = "AF" -> "Africa"
      [] code = "AS" -> "Asia"
      [] code = "EU" -> "Europe"
      [] code = "NA" -> "North America"
      [] code = "OC" -> "Oceania"
      [] code = "SA" -> "South America"
      [] code = "AN" -> "Antarctica"
      [] OTHER -> KeyErr

\* components/filters.py and pages/2_weather_trend_analysis.py: the dict is
\* indexed, a KeyError anywhere is caught by the bare except.
country_to_continent(country_name) ==
    LET country_alpha2 == pc_country_name_to_country_alpha2(country_name)
        continent_code == IF country_alpha2 = KeyErr THEN KeyErr
                          ELSE pc_country_alpha2_to_continent_code(country_alpha2)
    IN  IF continent_code = KeyErr \/ continent_map(continent_code) = KeyErr
        THEN "Unknown"
        ELSE continent_map(continent_code)

\* pages/3_AirQuality_Insights.py: continent_map.get(code, 'Unknown').
get_continent(country_name) ==
    LET country_alpha2 == pc_country_name_to_country_alpha2(country_name)
        continent_code == IF country_alpha2 = KeyErr THEN KeyErr
                          ELSE pc_country_alpha2_to_continent_code(country_alpha2)
    IN  IF continent_code = KeyErr THEN "Unknown"
        ELSE IF continent_map(continent_code) = KeyErr THEN "Unknown"
        ELSE continent_map(continent_code)

\* app.py: the library's own code-to-name conversion, and 'Other' on failure.
get_continent_from_country(country_name) ==
    LET country_alpha2 == pc_country_name_to_country_alpha2(country_name)
        continent_code == IF country_alpha2 = KeyErr THEN KeyErr
                          ELSE pc_country_alpha2_to_continent_code(country_alpha2)
        continent_name == IF continent_code = KeyErr THEN KeyErr
                          ELSE pc_convert_continent_code_to_continent_name(continent_code)
    IN  IF continent_name = KeyErr THEN "Other" ELSE continent_name

----------------------------------------------------------------------------
(* The loaders.  A table is a set of rows; id is the row's position in the *)
(* CSV.  A loaded row carries the derived columns, NoCol / NoNum where the *)
(* table has no such column.                                               *)

Derived(r, continent, year, month, day) ==
    [id |-> r.id, country |-> r.country, location_name |-> r.location_name,
     latitude |-> r.latitude, longitude |-> r.longitude,
     last_updated |-> r.last_updated,
     temperature_celsius |-> r.temperature_celsius, humidity |-> r.humidity,
     wind_mph |-> r.wind_mph, uv_index |-> r.uv_index,
     precip_mm |-> r.precip_mm, visibility_km |-> r.visibility_km,
     aqi |-> r.aqi, pm25 |-> r.pm25, pm10 |-> r.pm10,
     continent |-> continent, Year |-> year, Month |-> month, Day |-> day]

\* pd.to_numeric(errors='coerce').
to_numeric(v) == IF v = BadNum THEN Null ELSE v

MonthNames ==
    <<"January", "February", "March", "April", "May", "June", "July",
      "August", "September", "October", "November", "December">>
\* NaN in a column of strings.
NaNStr == "<NaN>"

\* .dt.year, .dt.month, .dt.day and .dt.month_name() of a parsed cell.
dt_year(u) == IF u.kind = "date" THEN u.y ELSE Null
dt_month(u) == IF u.kind = "date" THEN u.m ELSE Null
dt_day(u) == IF u.kind = "date" THEN u.d ELSE Null
dt_month_name(u) == IF u.kind = "date" THEN MonthNames[u.m] ELSE NaNStr

\* read_csv(parse_dates=...) leaves the column as text when a cell cannot
\* be parsed, and .dt then raises.
DatetimeColumn(t) == \A r \in t : r.last_updated.kind # "text"

\* components/utils.py: the CSV as it is (its required columns are there).
load_data(s) == {Derived(r, NoCol, NoNum, NoNum, NoNum) : r \in s}

\* pages/4_Sun_&_Moon_Explorer.py: coordinates coerced.
load_data_sunmoon(s) ==
    {[Derived(r, NoCol, NoNum, NoNum, NoNum)
        EXCEPT !.latitude = to_numeric(r.latitude),
               !.longitude = to_numeric(r.longitude)] : r \in s}

\* app.py: continent derived, coordinates coerced, rows without them dropped.
load_and_process_data(s) ==
    LET coerced ==
          {[Derived(r, get_continent_from_country(r.country), NoNum, NoNum, NoNum)
              EXCEPT !.latitude = to_numeric(r.latitude),
                     !.longitude = to_numeric(r.longitude)] : r \in s}
    IN  {r \in coerced : r.latitude # Null /\ r.longitude # Null}

\* pages/3_AirQuality_Insights.py: continent derived.
load_data_airq(s) ==
    {Derived(r, get_continent(r.country), NoNum, NoNum, NoNum) : r \in s}

\* pages/2_weather_trend_analysis.py: continent and the date parts derived.
load_data_trend(s) ==
    {Derived(r, country_to_continent(r.country), dt_year(r.last_updated),
             dt_month_name(r.last_updated), dt_day(r.last_updated)) : r \in s}

PanelPages == {"analytics", "reports", "station", "sunmoon"}
SidebarPages == {"airq", "trend"}
Pages == PanelPages \cup SidebarPages \cup {"app"}

Loader(p, s) ==
    CASE p \in {"analytics", "reports", "station"} -> load_data(s)
      [] p = "sunmoon" -> load_data_sunmoon(s)
      [] p = "app" -> load_and_process_data(s)
      [] p = "airq" -> load_data_airq(s)
      [] p = "trend" -> load_data_trend(s)

----------------------------------------------------------------------------
(* Helpers of the sidebar and of the filters.                              *)

\* int() of a measure held in halves: truncation toward zero.
IntOf(v) == IF v >= 0 THEN v \div 2 ELSE -((-v) \div 2)

Values(t, col) == {r[col] : r \in t} \ {Null}
Min(S) == CHOOSE x \in S : \A y \in S : x <= y
Max(S) == CHOOSE x \in S : \A y \in S : x >= y

\* The pairs a range slider over lo..hi can return.
Ranges(lo, hi) == {x \in [lo : lo..hi, hi : lo..hi] : x.lo <= x.hi}
\* The slider of a column in halves: int(min), int(max) of its values.
SliderRanges(t, col) ==
    Ranges(IntOf(Min(Values(t, col))), IntOf(Max(Values(t, col))))
\* The slider of the AQI index, which the CSV holds as whole numbers.
IndexRanges(t, col) == Ranges(Min(Values(t, col)), Max(Values(t, col)))

\* Between with a null passing the test.
Between_KeepsNull(v, x) == v = Null \/ (v >= 2 * x.lo /\ v <= 2 * x.hi)

\* lo <= x <= hi on a column in halves; NaN compares false.
Between(v, x) == v # Null /\ v >= 2 * x.lo /\ v <= 2 * x.hi
\* x <= level on the AQI index; NaN compares false.
AtMost(v, level) == v # Null /\ v <= level

NoRange == [lo |-> 0, hi |-> 0]
NoRanges == [temp |-> NoRange, humidity |-> NoRange, wind |-> NoRange,
             uv |-> NoRange, precip |-> NoRange, visibility |-> NoRange,
             aqi |-> NoRange, pm25 |-> NoRange, pm10 |-> NoRange,
             max_aqi |-> 0, search |-> ""]
NoSets == [continent |-> {}, country |-> {}, location |-> {}]
NoDates == [years |-> {}, months |-> {}, days |-> {}]
NoLoc == [country |-> "", continent |-> "", failed |-> FALSE]

\* The functions under st.cache_data that the load contract names.
CachedLoaders == {"utils", "sunmoon", "app"}
\* No file at the path.
NoDisk == [exists |-> FALSE, absent |-> {}, version |-> 0]
\* What a load call gives back: a table (the content it was made from, the
\* columns it lacks, the columns made up as all-null) or an exception.
NoValue == [outcome |-> "none", version |-> 0, lacking |-> {}, synthesized |-> {}]
NoEntry == [full |-> FALSE, value |-> NoValue, age |-> 0]
NoRet == [loader |-> "none", read |-> FALSE, seen |-> NoDisk, value |-> NoValue]
NoRanking == [chart |-> "none", rows |-> <<>>]
NoReading == [pm25 |-> <<0, 0>>, pm10 |-> <<0, 0>>, index |-> <<>>]
NoBucket == [of |-> "none", category |-> "", counts |-> {}]

\* The six tabs of app.py, and the keys of their two multiselects:
\* "tabN_country_filter" and "tabN_location_filter".
Tabs == 1..6
Keys == Tabs \X {"country_filter", "location_filter"}
\* No widget touched by the user, and the tabs before they are drawn.
NoWidgets == [k \in Keys |-> [set |-> FALSE, options |-> {}, value |-> {}]]
NoTabs == <<>>

\* The parts of the state a session over one snapshot leaves alone.
LoadIdle ==
    /\ disk = NoDisk
    /\ cache = [f \in CachedLoaders |-> NoEntry]
    /\ reads = [f \in CachedLoaders |-> 0]
    /\ ret = NoRet
RankIdle ==
    /\ table = <<>>
    /\ ranking = NoRanking
BucketIdle ==
    /\ reading = NoReading
    /\ bucket = NoBucket
TabIdle ==
    /\ widgets = NoWidgets
    /\ tabs = NoTabs

Init ==
    /\ LoadIdle
    /\ RankIdle
    /\ BucketIdle
    /\ TabIdle
    /\ src \in Snapshots
    /\ page = "none"
    /\ pc = "idle"
    /\ errAt = "none"
    /\ userLoc = NoLoc
    /\ df = {}
    /\ opts = NoSets
    /\ sel = NoSets
    /\ rng = NoRanges
    /\ dates = NoDates
    /\ filtered = {}
    /\ trend = {}
    /\ warn = FALSE

\* An exception ends the script run at block b.
Raise(b) ==
    /\ pc' = "error"
    /\ errAt' = b

\* The page's script starts: its loader runs.
Visit ==
    /\ pc = "idle"
    /\ \E p \in Pages :
         /\ page' = p
         /\ IF p = "trend" /\ ~DatetimeColumn(src)
            THEN /\ Raise("load")
                 /\ df' = {}
            ELSE /\ df' = Loader(p, src)
                 /\ pc' = IF p \in PanelPages THEN "continent" ELSE "geo"
                 /\ errAt' = errAt
    /\ UNCHANGED <<loadVars, rankVars, bucketVars, tabVars, src, userLoc, opts, sel, rng, dates, filtered, trend, warn>>

----------------------------------------------------------------------------
(* components/filters.py: filter_panel, block by block.                    *)

\* The default country of filter_panel.
default_country == "India"

\* AddContinent resolving the wrong column.
AddContinent_FromLocation(t) ==
    IF \E r \in t : r.continent = NoCol
    THEN {[r EXCEPT !.continent = country_to_continent(r.location_name)] : r \in t}
    ELSE t

\* Lines 18-20: the continent column is added to the caller's table.
AddContinent(t) ==
    IF \E r \in t : r.continent = NoCol
    THEN {[r EXCEPT !.continent = country_to_continent(r.country)] : r \in t}
    ELSE t

\* Lines 22-32.  With the box unchecked the default of the multiselect is
\* computed first, from the rows of the default country.
PanelContinent ==
    /\ pc = "continent"
    /\ page \in PanelPages
    /\ df' = AddContinent(df)
    /\ LET continents == {r.continent : r \in df'} \ {NaNStr}
       IN  /\ opts' = [opts EXCEPT !.continent = continents]
           /\ \/ /\ sel' = [sel EXCEPT !.continent = continents]
                 /\ pc' = "country"
                 /\ errAt' = errAt
              \/ /\ \E r \in df' : r.country = default_country
                 /\ \E s \in SUBSET continents :
                      sel' = [sel EXCEPT !.continent = s]
                 /\ pc' = "country"
                 /\ errAt' = errAt
              \/ /\ ~\E r \in df' : r.country = default_country
                 /\ Raise("continent")
                 /\ sel' = sel
    /\ UNCHANGED <<loadVars, rankVars, bucketVars, tabVars, src, page, userLoc, rng, dates, filtered, trend, warn>>

\* CountryOptions without the restriction to the selected continents.
CountryOptions_AllCountries(t, continents) == {r.country : r \in t}

\* Lines 35, 92 (Air Quality), 83 (trend), 136 (app): the countries of the
\* rows of the selected continents.
CountryOptions(t, continents) ==
    {r.country : r \in {x \in t : x.continent \in continents}}

\* Lines 47, 104 (Air Quality), 95 (trend): the locations of the rows of the
\* selected countries.
LocationOptions(t, countries) ==
    {r.location_name : r \in {x \in t : x.country \in countries}}

\* PanelCountry with a selection that is not held to the options.
PanelCountry_Stale ==
    /\ pc = "country"
    /\ page \in PanelPages
    /\ LET countries_in_selected_cont == CountryOptions(df, sel.continent)
       IN  /\ opts' = [opts EXCEPT !.country = countries_in_selected_cont]
           /\ \E s \in SUBSET {r.country : r \in df} :
                sel' = [sel EXCEPT !.country = s]
    /\ pc' = "location"
    /\ UNCHANGED <<loadVars, rankVars, bucketVars, tabVars, src, page, errAt, userLoc, df, rng, dates, filtered, trend, warn>>

\* Lines 34-44: every default of the multiselect is defined.
PanelCountry ==
    /\ pc = "country"
    /\ page \in PanelPages
    /\ LET countries_in_selected_cont == CountryOptions(df, sel.continent)
       IN  /\ opts' = [opts EXCEPT !.country = countries_in_selected_cont]
           /\ \E s \in SUBSET countries_in_selected_cont :
                sel' = [sel EXCEPT !.country = s]
    /\ pc' = "location"
    /\ UNCHANGED <<loadVars, rankVars, bucketVars, tabVars, src, page, errAt, userLoc, df, rng, dates, filtered, trend, warn>>

\* Lines 46-56.
PanelLocation ==
    /\ pc = "location"
    /\ page \in PanelPages
    /\ LET locations_in_selected_countries == LocationOptions(df, sel.country)
       IN  /\ opts' = [opts EXCEPT !.location = locations_in_selected_countries]
           /\ \E s \in SUBSET locations_in_selected_countries :
                sel' = [sel EXCEPT !.location = s]
    /\ pc' = "ranges"
    /\ UNCHANGED <<loadVars, rankVars, bucketVars, tabVars, src, page, errAt, userLoc, df, rng, dates, filtered, trend, warn>>

\* The columns filter_panel puts a slider on.
PanelColumns == {"temperature_celsius", "humidity", "wind_mph", "uv_index",
                 "precip_mm", "visibility_km", "aqi"}

\* Lines 58-96: the seven sliders; int() of the NaN that min() gives on a
\* column without a value raises.
PanelSliders ==
    /\ pc = "ranges"
    /\ page \in PanelPages
    /\ IF \E col \in PanelColumns : Values(df, col) = {}
       THEN /\ Raise("ranges")
            /\ rng' = rng
       ELSE /\ \E t \in SliderRanges(df, "temperature_celsius"),
                   h \in SliderRanges(df, "humidity"),
                   w \in SliderRanges(df, "wind_mph"),
                   u \in SliderRanges(df, "uv_index"),
                   p \in SliderRanges(df, "precip_mm"),
                   v \in SliderRanges(df, "visibility_km"),
                   a \in IndexRanges(df, "aqi") :
                 rng' = [rng EXCEPT !.temp = t, !.humidity = h, !.wind = w,
                                    !.uv = u, !.precip = p, !.visibility = v,
                                    !.aqi = a]
            /\ pc' = "filter"
            /\ errAt' = errAt
    /\ UNCHANGED <<loadVars, rankVars, bucketVars, tabVars, src, page, userLoc, df, opts, sel, dates, filtered, trend, warn>>

----------------------------------------------------------------------------
(* The filtered subset of the pages that call filter_panel.                *)

\* The three isin() tests on continent, country and location_name.
Membership(t, s) ==
    {r \in t : /\ r.continent \in s.continent
               /\ r.country \in s.country
               /\ r.location_name \in s.location}

\* AnalyticsFiltered with the maximum of the temperature range left out.
AnalyticsFiltered_StrictUpper(t, s, x) ==
    LET stage1 == Membership(t, s)
        stage2 == {r \in stage1 : /\ Between(r.temperature_celsius, x.temp)
                                  /\ r.temperature_celsius < 2 * x.temp.hi}
        stage3 == {r \in stage2 : Between(r.humidity, x.humidity)}
    IN  {r \in stage3 : Between(r.wind_mph, x.wind)}

\* pages/2_Analytics.py and pages/5_Reports.py, lines 17-40: four stages.
AnalyticsFiltered(t, s, x) ==
    LET stage1 == Membership(t, s)
        stage2 == {r \in stage1 : Between(r.temperature_celsius, x.temp)}
        stage3 == {r \in stage2 : Between(r.humidity, x.humidity)}
    IN  {r \in stage3 : Between(r.wind_mph, x.wind)}

\* Series.str.contains(term, case=False, na=False) on the names of the pool.
str_contains(text, term) ==
    <<text, term>> \in {<<"India", "india">>, <<"Paris", "par">>}

\* What the user types in the search box of the Station Explorer.
SearchTerms == {"", "india", "par"}

\* pages/6_Station_Explorer.py, lines 13-30: the three isin() tests and the
\* search box; no slider of the panel is read.
StationFiltered(t, s, term) ==
    LET stage1 == Membership(t, s)
    IN  IF term # ""
        THEN {r \in stage1 : \/ str_contains(r.location_name, term)
                             \/ str_contains(r.country, term)}
        ELSE stage1

\* pages/4_Sun_&_Moon_Explorer.py, lines 69-78: country and location, then
\* temperature, humidity and wind; continent is not tested.
SunMoonFiltered(t, s, x) ==
    {r \in t : /\ r.country \in s.country
               /\ r.location_name \in s.location
               /\ Between(r.temperature_celsius, x.temp)
               /\ Between(r.humidity, x.humidity)
               /\ Between(r.wind_mph, x.wind)}

\* The filter block of the page, and its warning on an empty subset
\* (Analytics 46, Reports 46, Station Explorer 48, Sun & Moon 92).
PanelFilter ==
    /\ pc = "filter"
    /\ page \in PanelPages
    /\ \/ /\ page \in {"analytics", "reports"}
          /\ filtered' = AnalyticsFiltered(df, sel, rng)
          /\ rng' = rng
       \/ /\ page = "station"
          /\ \E term \in SearchTerms :
               /\ rng' = [rng EXCEPT !.search = term]
               /\ filtered' = StationFiltered(df, sel, term)
       \/ /\ page = "sunmoon"
          /\ filtered' = SunMoonFiltered(df, sel, rng)
          /\ rng' = rng
    /\ warn' = (filtered' = {})
    /\ pc' = "done"
    /\ UNCHANGED <<loadVars, rankVars, bucketVars, tabVars, src, page, errAt, userLoc, df, opts, sel, dates, trend>>

\* The user interacts again, or opens another page: the script reruns.
Rerun ==
    /\ pc \in {"done", "error"}
    /\ page' = "none"
    /\ pc' = "idle"
    /\ errAt' = "none"
    /\ userLoc' = NoLoc
    /\ df' = {}
    /\ opts' = NoSets
    /\ sel' = NoSets
    /\ rng' = NoRanges
    /\ dates' = NoDates
    /\ filtered' = {}
    /\ trend' = {}
    /\ warn' = FALSE
    /\ src' = src
    /\ UNCHANGED <<loadVars, rankVars, bucketVars, tabVars>>

----------------------------------------------------------------------------
(* The optional geolocation lookup.  The service answers with a country   *)
(* code, or the request fails ("fail": an exception, or no country field). *)

GeoAnswers == {"fail", "FR", "TL", "ZZ"}
\* The failures among them: an exception of the request or a response
\* without a country ("fail"), and a code the converter does not know.
GeoFailures == {"fail", "ZZ"}

\* app.py, lines 106-117: (continent, country), United States on failure.
get_user_location(answer) ==
    LET user_country == IF answer = "fail" THEN KeyErr
                        ELSE pc_country_alpha2_to_country_name(answer)
    IN  IF user_country = KeyErr
        THEN [country |-> "United States", continent |-> "North America"]
        ELSE [country |-> user_country,
              continent |-> get_continent_from_country(user_country)]

\* pages/3_AirQuality_Insights.py 55-72 and pages/2_weather_trend_analysis.py
\* 31-47: (country, continent), India on failure.
get_user_country_and_continent(answer) ==
    LET country_name == IF answer = "fail" THEN KeyErr
                        ELSE pc_country_alpha2_to_country_name(answer)
        continent_code == IF answer = "fail" THEN KeyErr
                          ELSE pc_country_alpha2_to_continent_code(answer)
    IN  IF country_name = KeyErr \/ continent_code = KeyErr
        THEN [country |-> "India", continent |-> "Asia"]
        ELSE [country |-> country_name,
              continent |-> IF continent_map(continent_code) = KeyErr
                            THEN "Unknown" ELSE continent_map(continent_code)]

\* The service can also never respond.  app.py asks with timeout=5, which
\* turns the silence into an exception ("fail"); the two pages ask without
\* a timeout and requests.get then never returns: the script waits.
DetectLocation ==
    /\ pc = "geo"
    /\ \/ /\ \E answer \in GeoAnswers :
               LET loc == IF page = "app" THEN get_user_location(answer)
                          ELSE get_user_country_and_continent(answer)
               IN  userLoc' = [country |-> loc.country,
                               continent |-> loc.continent,
                               failed |-> answer \in GeoFailures]
          /\ pc' = "continent"
       \/ /\ page # "app"
          /\ userLoc' = userLoc
          /\ pc' = "waiting"
    /\ UNCHANGED <<loadVars, rankVars, bucketVars, tabVars, src, page, errAt, df, opts, sel, rng, dates, filtered, trend, warn>>

----------------------------------------------------------------------------
(* app.py: the sidebar and the globally filtered subset.                   *)

\* Lines 128-133.
AppContinent ==
    /\ pc = "continent"
    /\ page = "app"
    /\ LET unique_continents == {r.continent : r \in df}
       IN  /\ opts' = [opts EXCEPT !.continent = unique_continents]
           /\ \E s \in SUBSET unique_continents :
                sel' = [sel EXCEPT !.continent = s]
    /\ pc' = "country"
    /\ UNCHANGED <<loadVars, rankVars, bucketVars, tabVars, src, page, errAt, userLoc, df, rng, dates, filtered, trend, warn>>

\* Lines 135-144: without a continent there is no country control.
AppCountry ==
    /\ pc = "country"
    /\ page = "app"
    /\ IF sel.continent # {}
       THEN LET countries_in_selected_continents ==
                    CountryOptions(df, sel.continent)
            IN  /\ opts' = [opts EXCEPT !.country = countries_in_selected_continents]
                /\ \E s \in SUBSET countries_in_selected_continents :
                     sel' = [sel EXCEPT !.country = s]
       ELSE /\ opts' = [opts EXCEPT !.country = {}]
            /\ sel' = [sel EXCEPT !.country = {}]
    /\ pc' = "ranges"
    /\ UNCHANGED <<loadVars, rankVars, bucketVars, tabVars, src, page, errAt, userLoc, df, rng, dates, filtered, trend, warn>>

\* The levels of the US EPA index the select_slider offers.
AqiLevels == 1..6

\* Lines 149-153.
AppSliders ==
    /\ pc = "ranges"
    /\ page = "app"
    /\ IF Values(df, "temperature_celsius") = {}
       THEN /\ Raise("ranges")
            /\ rng' = rng
       ELSE /\ \E selected_aqi_level \in AqiLevels,
                   temp_range \in SliderRanges(df, "temperature_celsius") :
                 rng' = [rng EXCEPT !.max_aqi = selected_aqi_level,
                                    !.temp = temp_range]
            /\ pc' = "filter"
            /\ errAt' = errAt
    /\ UNCHANGED <<loadVars, rankVars, bucketVars, tabVars, src, page, userLoc, df, opts, sel, dates, filtered, trend, warn>>

\* AppFiltered without the test of the AQI level.
AppFiltered_NoAqi(t, s, x) ==
    {r \in t : /\ r.country \in s.country
               /\ Between(r.temperature_celsius, x.temp)}

\* Lines 164-168.
AppFiltered(t, s, x) ==
    {r \in t : /\ r.country \in s.country
               /\ AtMost(r.aqi, x.max_aqi)
               /\ Between(r.temperature_celsius, x.temp)}

\* Lines 160-172: a warning and st.stop() without a country, and on an
\* empty subset.
AppFilter ==
    /\ pc = "filter"
    /\ page = "app"
    /\ IF sel.country = {}
       THEN /\ warn' = TRUE
            /\ filtered' = filtered
       ELSE /\ filtered' = AppFiltered(df, sel, rng)
            /\ warn' = (filtered' = {})
    /\ pc' = "done"
    /\ UNCHANGED <<loadVars, rankVars, bucketVars, tabVars, src, page, errAt, userLoc, df, opts, sel, rng, dates, trend>>

----------------------------------------------------------------------------
(* pages/3_AirQuality_Insights.py and pages/2_weather_trend_analysis.py:   *)
(* the sidebar the two pages share line for line.                          *)

\* Air Quality 79-89, trend 70-80: with the box unchecked the default is
\* [default_continent] or [continents[0]]; the loaded table has a row, so
\* continents[0] exists.
SidebarContinent ==
    /\ pc = "continent"
    /\ page \in SidebarPages
    /\ LET continents == {r.continent : r \in df} \ {NaNStr}
       IN  /\ opts' = [opts EXCEPT !.continent = continents]
           /\ \/ /\ sel' = [sel EXCEPT !.continent = continents]
                 /\ pc' = "country"
                 /\ errAt' = errAt
              \/ /\ userLoc.continent \in continents \/ continents # {}
                 /\ \E s \in SUBSET continents :
                      sel' = [sel EXCEPT !.continent = s]
                 /\ pc' = "country"
                 /\ errAt' = errAt
    /\ UNCHANGED <<loadVars, rankVars, bucketVars, tabVars, src, page, userLoc, df, rng, dates, filtered, trend, warn>>

\* Air Quality 91-101, trend 82-92: with the box unchecked the default is
\* [default_country] or [countries[0]], and countries[0] of an empty list
\* raises IndexError.
SidebarCountry ==
    /\ pc = "country"
    /\ page \in SidebarPages
    /\ LET countries == CountryOptions(df, sel.continent)
       IN  /\ opts' = [opts EXCEPT !.country = countries]
           /\ \/ /\ sel' = [sel EXCEPT !.country = countries]
                 /\ pc' = "location"
                 /\ errAt' = errAt
              \/ /\ userLoc.country \in countries \/ countries # {}
                 /\ \E s \in SUBSET countries :
                      sel' = [sel EXCEPT !.country = s]
                 /\ pc' = "location"
                 /\ errAt' = errAt
              \/ /\ userLoc.country \notin countries /\ countries = {}
                 /\ Raise("country")
                 /\ sel' = sel
    /\ UNCHANGED <<loadVars, rankVars, bucketVars, tabVars, src, page, userLoc, df, rng, dates, filtered, trend, warn>>

\* Air Quality 103-113, trend 94-104: the default is the whole list.
SidebarLocation ==
    /\ pc = "location"
    /\ page \in SidebarPages
    /\ LET locations == LocationOptions(df, sel.country)
       IN  /\ opts' = [opts EXCEPT !.location = locations]
           /\ \E s \in SUBSET locations :
                sel' = [sel EXCEPT !.location = s]
    /\ pc' = IF page = "airq" THEN "ranges" ELSE "year"
    /\ UNCHANGED <<loadVars, rankVars, bucketVars, tabVars, src, page, errAt, userLoc, df, rng, dates, filtered, trend, warn>>

----------------------------------------------------------------------------
(* pages/3_AirQuality_Insights.py: ranges, filtered subset, date filters.  *)

\* Lines 115-129.
AirqSliders ==
    /\ pc = "ranges"
    /\ page = "airq"
    /\ IF Values(df, "pm25") = {} \/ Values(df, "pm10") = {}
       THEN /\ Raise("ranges")
            /\ rng' = rng
       ELSE /\ \E selected_aqi_level \in AqiLevels,
                   pm2_5_range \in SliderRanges(df, "pm25"),
                   pm10_range \in SliderRanges(df, "pm10") :
                 rng' = [rng EXCEPT !.max_aqi = selected_aqi_level,
                                    !.pm25 = pm2_5_range,
                                    !.pm10 = pm10_range]
            /\ pc' = "filter"
            /\ errAt' = errAt
    /\ UNCHANGED <<loadVars, rankVars, bucketVars, tabVars, src, page, userLoc, df, opts, sel, dates, filtered, trend, warn>>

\* Lines 134-141.
AirqFiltered(t, s, x) ==
    {r \in t : /\ r.continent \in s.continent
               /\ r.country \in s.country
               /\ r.location_name \in s.location
               /\ AtMost(r.aqi, x.max_aqi)
               /\ Between(r.pm25, x.pm25)
               /\ Between(r.pm10, x.pm10)}

\* Lines 134-145: a warning and st.stop() on an empty subset.
AirqFilter ==
    /\ pc = "filter"
    /\ page = "airq"
    /\ filtered' = AirqFiltered(df, sel, rng)
    /\ warn' = (filtered' = {})
    /\ pc' = IF filtered' = {} THEN "done" ELSE "datecols"
    /\ UNCHANGED <<loadVars, rankVars, bucketVars, tabVars, src, page, errAt, userLoc, df, opts, sel, rng, dates, trend>>

\* Lines 373-375: Year, Month and Day are written to the filtered subset,
\* which boolean indexing made a table of its own.
WithDateParts(view) ==
    {[r EXCEPT !.Year = dt_year(r.last_updated),
               !.Month = dt_month(r.last_updated),
               !.Day = dt_day(r.last_updated)] : r \in view}

\* AirqDateColumns on a view that shares its data with the parent.
AirqDateColumns_WritesParent ==
    /\ pc = "datecols"
    /\ page = "airq"
    /\ IF DatetimeColumn(df)
       THEN /\ filtered' = WithDateParts(filtered)
            /\ df' = WithDateParts(filtered) \cup
                       {r \in df : r \notin filtered}
            /\ pc' = "dates"
            /\ errAt' = errAt
       ELSE /\ Raise("datecols")
            /\ filtered' = filtered
            /\ df' = df
    /\ UNCHANGED <<loadVars, rankVars, bucketVars, tabVars, src, page, userLoc, opts, sel, rng, dates, trend, warn>>

AirqDateColumns ==
    /\ pc = "datecols"
    /\ page = "airq"
    /\ IF DatetimeColumn(df)
       THEN /\ filtered' = WithDateParts(filtered)
            /\ pc' = "dates"
            /\ errAt' = errAt
       ELSE /\ Raise("datecols")
            /\ filtered' = filtered
    /\ UNCHANGED <<loadVars, rankVars, bucketVars, tabVars, src, page, userLoc, df, opts, sel, rng, dates, trend, warn>>

\* The months and days the user picks among 1..12 and 1..31.
MonthPicks == {5, 6}
DayPicks == {16, 17}

\* Lines 390-396: each date part filters only when something is selected.
PmTrendFiltered(view, d) ==
    LET by_year == IF d.years # {}
                   THEN {r \in view : r.Year \in d.years} ELSE view
        by_month == IF d.months # {}
                    THEN {r \in by_year : r.Month \in d.months} ELSE by_year
    IN  IF d.days # {} THEN {r \in by_month : r.Day \in d.days} ELSE by_month

\* Lines 377-396.
AirqDateFilter ==
    /\ pc = "dates"
    /\ page = "airq"
    /\ LET years == {r.Year : r \in filtered}
       IN  \E selected_years \in SUBSET years,
              selected_months \in SUBSET MonthPicks,
              selected_days \in SUBSET DayPicks :
             dates' = [years |-> selected_years, months |-> selected_months,
                       days |-> selected_days]
    /\ trend' = PmTrendFiltered(filtered, dates')
    /\ pc' = "done"
    /\ UNCHANGED <<loadVars, rankVars, bucketVars, tabVars, src, page, errAt, userLoc, df, opts, sel, rng, filtered, warn>>

----------------------------------------------------------------------------
(* pages/2_weather_trend_analysis.py: date controls and filtered subset.   *)

\* Lines 106-112.
TrendYear ==
    /\ pc = "year"
    /\ page = "trend"
    /\ LET years == {r.Year : r \in df}
       IN  \E selected_years \in SUBSET years :
             dates' = [dates EXCEPT !.years = selected_years]
    /\ pc' = "month"
    /\ UNCHANGED <<loadVars, rankVars, bucketVars, tabVars, src, page, errAt, userLoc, df, opts, sel, rng, filtered, trend, warn>>

\* Lines 114-118: the months of the rows of the selected years, or of all.
MonthOptions(t, selected_years) ==
    IF selected_years # {}
    THEN {r.Month : r \in {x \in t : x.Year \in selected_years}}
    ELSE {r.Month : r \in t}

\* Lines 126-130: the days of the rows of the selected months, or of all.
DayOptions(t, selected_months) ==
    IF selected_months # {}
    THEN {r.Day : r \in {x \in t : x.Month \in selected_months}}
    ELSE {r.Day : r \in t}

\* Lines 114-124: sorted() of month names and a NaN raises TypeError.
TrendMonth ==
    /\ pc = "month"
    /\ page = "trend"
    /\ LET months == MonthOptions(df, dates.years)
       IN  IF NaNStr \in months /\ Cardinality(months) > 1
           THEN /\ Raise("month")
                /\ dates' = dates
           ELSE /\ \E selected_months \in SUBSET months :
                     dates' = [dates EXCEPT !.months = selected_months]
                /\ pc' = "day"
                /\ errAt' = errAt
    /\ UNCHANGED <<loadVars, rankVars, bucketVars, tabVars, src, page, userLoc, df, opts, sel, rng, filtered, trend, warn>>

\* Lines 126-136.
TrendDay ==
    /\ pc = "day"
    /\ page = "trend"
    /\ LET days == DayOptions(df, dates.months)
       IN  \E selected_days \in SUBSET days :
             dates' = [dates EXCEPT !.days = selected_days]
    /\ pc' = "filter"
    /\ UNCHANGED <<loadVars, rankVars, bucketVars, tabVars, src, page, errAt, userLoc, df, opts, sel, rng, filtered, trend, warn>>

\* Lines 142-149: Year is tested always, Month and Day when selected.
TrendFiltered(t, s, d) ==
    {r \in t : /\ r.continent \in s.continent
               /\ r.country \in s.country
               /\ r.location_name \in s.location
               /\ r.Year \in d.years
               /\ (IF d.months # {} THEN r.Month \in d.months ELSE TRUE)
               /\ (IF d.days # {} THEN r.Day \in d.days ELSE TRUE)}

\* Lines 142-158.
TrendFilter ==
    /\ pc = "filter"
    /\ page = "trend"
    /\ filtered' = TrendFiltered(df, sel, dates)
    /\ warn' = (filtered' = {})
    /\ pc' = "done"
    /\ UNCHANGED <<loadVars, rankVars, bucketVars, tabVars, src, page, errAt, userLoc, df, opts, sel, rng, dates, trend>>

----------------------------------------------------------------------------
(* Properties.                                                             *)

\* The script is past the filter block and has a filtered subset.
HasFiltered == pc \in {"done", "datecols", "dates"}
\* The script is past the country control.
PastCountry ==
    pc \in {"location", "ranges", "year", "month", "day", "filter",
            "datecols", "dates", "done"}
\* The script is past the location control (app.py has none in the sidebar).
PastLocation ==
    /\ page \in PanelPages \cup SidebarPages
    /\ pc \in {"ranges", "year", "month", "day", "filter", "datecols",
               "dates", "done"}

\* The rows of a view without the date parts line 373-375 add to it.
OriginalColumns(view) ==
    IF page = "airq"
    THEN {[r EXCEPT !.Year = NoNum, !.Month = NoNum, !.Day = NoNum] : r \in view}
    ELSE view

\* v lies in the closed range x of a slider (v in halves, x in units).
Within(v, x) == v # Null /\ 2 * x.lo <= v /\ v <= 2 * x.hi

\* The range and level predicates the filter of the page applies to a row.
RangesHold(r) ==
    /\ page \in {"analytics", "reports", "sunmoon"} =>
         /\ Within(r.temperature_celsius, rng.temp)
         /\ Within(r.humidity, rng.humidity)
         /\ Within(r.wind_mph, rng.wind)
    /\ page = "app" =>
         /\ Within(r.temperature_celsius, rng.temp)
         /\ r.aqi # Null /\ r.aqi <= rng.max_aqi
    /\ page = "airq" =>
         /\ Within(r.pm25, rng.pm25)
         /\ Within(r.pm10, rng.pm10)
         /\ r.aqi # Null /\ r.aqi <= rng.max_aqi

\* The membership predicates of the levels the page has a control for.
MembershipHolds(r) ==
    /\ r.continent \in sel.continent
    /\ r.country \in sel.country
    /\ page # "app" => r.location_name \in sel.location

C2_FilteredExact ==
    (pc = "done" /\ page \in {"analytics", "reports"}) =>
        \A r \in df :
            r \in filtered <=>
                /\ r.continent \in sel.continent
                /\ r.country \in sel.country
                /\ r.location_name \in sel.location
                /\ Within(r.temperature_celsius, rng.temp)
                /\ Within(r.humidity, rng.humidity)
                /\ Within(r.wind_mph, rng.wind)

\* Only Asia is selected, and the result is the rows of Asia.
C2_Witness ==
    /\ pc = "done"
    /\ page = "analytics"
    /\ sel.continent = {"Asia"}
    /\ filtered = {r \in df : r.continent = "Asia"}
    /\ filtered # {}
    /\ filtered # df

\* C3: on every page that uses filter_panel no row of the filtered subset
\* has a measure outside a range the user selected on the panel
\* (temperature, humidity, wind, UV index, precipitation, visibility, AQI),
\* in conjunction with the three memberships.
C3_PanelRangesEnforced ==
    (pc = "done" /\ page \in PanelPages) =>
        \A r \in filtered :
            /\ r.continent \in sel.continent
            /\ r.country \in sel.country
            /\ r.location_name \in sel.location
            /\ Within(r.temperature_celsius, rng.temp)
            /\ Within(r.humidity, rng.humidity)
            /\ Within(r.wind_mph, rng.wind)
            /\ Within(r.uv_index, rng.uv)
            /\ Within(r.precip_mm, rng.precip)
            /\ Within(r.visibility_km, rng.visibility)
            /\ r.aqi # Null /\ rng.aqi.lo <= r.aqi /\ r.aqi <= rng.aqi.hi

\* C4: the country options are the countries of the rows whose continent is
\* selected, the location options are the locations of the rows whose
\* continent and country are both selected; so every row of an offered
\* country has a selected continent.
C4_CascadingOptions ==
    /\ PastCountry =>
         /\ opts.country =
              {r.country : r \in {x \in df : x.continent \in sel.continent}}
         /\ \A r \in df : r.country \in opts.country =>
                            r.continent \in sel.continent
         /\ sel.country \subseteq opts.country
    /\ PastLocation =>
         /\ opts.location =
              {r.location_name :
                 r \in {x \in df : /\ x.continent \in sel.continent
                                   /\ x.country \in sel.country}}
         /\ sel.location \subseteq opts.location

\* A continent is left out, and so are its countries and their locations.
C4_Witness ==
    /\ PastLocation
    /\ page = "analytics"
    /\ opts.country # {}
    /\ opts.country # {r.country : r \in df}
    /\ opts.location # {}
    /\ opts.location # {r.location_name : r \in df}

\* C5: an empty selection at a level gives an empty option set at the next
\* level and an empty filtered subset with a warning, and no page raises
\* while it builds the country control, the location control or the
\* filtered subset.
C5_EmptySelectionHandled ==
    /\ pc = "error" => errAt \notin {"country", "location", "filter"}
    /\ (PastCountry /\ sel.continent = {}) => opts.country = {}
    /\ (PastLocation /\ sel.country = {}) => opts.location = {}
    /\ (pc = "done" /\ (sel.continent = {} \/ sel.country = {}))
         => (filtered = {} /\ warn)

\* A tested measure of the row is null.
NullInTested(r) ==
    \/ /\ page \in {"analytics", "reports", "sunmoon"}
       /\ Null \in {r.temperature_celsius, r.humidity, r.wind_mph}
    \/ /\ page = "app"
       /\ Null \in {r.temperature_celsius, r.aqi}
    \/ /\ page = "airq"
       /\ Null \in {r.pm25, r.pm10, r.aqi}

\* A tested measure of the row equals the selected minimum or maximum.
OnBound(r) ==
    \/ /\ page \in {"analytics", "reports", "sunmoon", "app"}
       /\ r.temperature_celsius \in {2 * rng.temp.lo, 2 * rng.temp.hi}
    \/ /\ page \in {"analytics", "reports", "sunmoon"}
       /\ \/ r.humidity \in {2 * rng.humidity.lo, 2 * rng.humidity.hi}
          \/ r.wind_mph \in {2 * rng.wind.lo, 2 * rng.wind.hi}
    \/ /\ page \in {"app", "airq"}
       /\ r.aqi = rng.max_aqi
    \/ /\ page = "airq"
       /\ \/ r.pm25 \in {2 * rng.pm25.lo, 2 * rng.pm25.hi}
          \/ r.pm10 \in {2 * rng.pm10.lo, 2 * rng.pm10.hi}

\* C6: the range filters are inclusive at both ends and exclude nulls: a row
\* with a measure equal to the selected minimum or maximum is kept when its
\* other values pass, and a row with a null in a tested measure is never in
\* the filtered subset, whatever the ranges.
C6_InclusiveAndNullFree ==
    (HasFiltered /\ page \in {"analytics", "reports", "sunmoon", "app", "airq"}) =>
        \A r \in df :
            /\ NullInTested(r) => r \notin OriginalColumns(filtered)
            /\ (OnBound(r) /\ MembershipHolds(r) /\ RangesHold(r))
                 => r \in OriginalColumns(filtered)

\* A row on a bound is kept and a row with a null measure, whose continent,
\* country and location are selected, is dropped.
C6_Witness ==
    /\ pc = "done"
    /\ page = "analytics"
    /\ \E r \in filtered : OnBound(r)
    /\ \E r \in df : /\ r.temperature_celsius = Null
                     /\ MembershipHolds(r)
                     /\ r \notin filtered

\* The date predicate of C7 on a row: a part filters only when its
\* selection is not empty.
DatePartsPass(r) ==
    /\ dates.years = {} \/ r.Year \in dates.years
    /\ dates.months = {} \/ r.Month \in dates.months
    /\ dates.days = {} \/ r.Day \in dates.days

\* C7: for year, month and day alike, a non-empty selection keeps the rows
\* whose part of last_updated is selected, and an empty selection does not
\* filter.
C7_DatePartsPassThrough ==
    /\ (pc = "done" /\ page = "trend") =>
         filtered = {r \in df : MembershipHolds(r) /\ DatePartsPass(r)}
    /\ (pc = "done" /\ page = "airq" /\ filtered # {}) =>
         trend = {r \in filtered : DatePartsPass(r)}

\* The script is between its loader and its end.
Running == pc \notin {"idle", "done", "error"}

WithoutContinent(t) == {[r EXCEPT !.continent = NoCol] : r \in t}

ContinentEnum ==
    {"Africa", "Asia", "Europe", "North America", "Oceania", "South America",
     "Antarctica", "Unknown"}

\* The library cannot resolve the country.
Unresolvable(country) ==
    \/ pc_country_name_to_country_alpha2(country) = KeyErr
    \/ pc_country_alpha2_to_continent_code(
           pc_country_name_to_country_alpha2(country)) = KeyErr

\* C9: every copy of the resolver returns a continent of the enumeration,
\* and "Unknown" for a country it cannot resolve.
C9_ResolverTotal ==
    \A r \in df :
        r.continent # NoCol =>
            /\ r.continent \in ContinentEnum
            /\ Unresolvable(r.country) => r.continent = "Unknown"

\* The resolver the page uses.
ResolverOf(p, country) ==
    CASE p = "app" -> get_continent_from_country(country)
      [] p = "airq" -> get_continent(country)
      [] OTHER -> country_to_continent(country)

ContinentNeeded ==
    /\ page # "none"
    /\ pc # "error"
    /\ page \in PanelPages => pc # "continent"

Next ==
    \/ Visit
    \/ PanelContinent
    \/ PanelCountry
    \/ PanelLocation
    \/ PanelSliders
    \/ PanelFilter
    \/ DetectLocation
    \/ AppContinent
    \/ AppCountry
    \/ AppSliders
    \/ AppFilter
    \/ SidebarContinent
    \/ SidebarCountry
    \/ SidebarLocation
    \/ AirqSliders
    \/ AirqFilter
    \/ AirqDateColumns
    \/ AirqDateFilter
    \/ TrendYear
    \/ TrendMonth
    \/ TrendDay
    \/ TrendFilter
    \/ Rerun

Spec == Init /\ [][Next]_vars

----------------------------------------------------------------------------
(* The load cache.  The CSV file is at a fixed path; what it holds is told *)
(* by its version, and the rows a loader makes of one content are         *)
(* Loader above.  st.cache_data keys an entry on the function and its     *)
(* arguments (the loaders have none that vary), never on the file; an     *)
(* exception is not cached.  Time is counted in hours.  The entries of    *)
(* two functions never meet, so a behaviour follows the calls of one      *)
(* function, the one its first call names.                                *)

\* Bound: the contents the file takes in a session.
MaxVersions == 2
\* Bound: the hours an entry is followed for.
MaxAge == 2
\* Bound: the times one function reads one content.
MaxReads == 2

\* components/utils.py, lines 14-15.
required_cols == {"country", "location_name", "latitude", "longitude",
                  "temperature_celsius", "humidity", "wind_mph"}
\* The columns a file can be short of: a required one that a loader reads,
\* a required one that no loader reads, and two optional ones.
AbsentChoices == {{}, {"country"}, {"temperature_celsius"},
                  {"last_updated"}, {"uv_index"}}
Disks ==
    {NoDisk} \cup [exists : {TRUE}, absent : AbsentChoices,
                   version : 1..MaxVersions]

Loaded(d, synth) ==
    [outcome |-> "table", version |-> d.version,
     lacking |-> d.absent \ synth, synthesized |-> synth]
Raised(exception) ==
    [outcome |-> exception, version |-> 0, lacking |-> {}, synthesized |-> {}]

\* components/utils.py: read_csv raises when there is no file; an absent
\* required column is made up, filled with None.
utils_load_data(d) ==
    IF ~d.exists THEN Raised("FileNotFoundError")
    ELSE Loaded(d, d.absent \cap required_cols)

\* pages/4_Sun_&_Moon_Explorer.py: last_updated_dt is NaT throughout when
\* there is no last_updated.
sunmoon_load_data(d) ==
    IF ~d.exists THEN Raised("FileNotFoundError")
    ELSE Loaded(d, IF "last_updated" \in d.absent THEN {"last_updated_dt"}
                   ELSE {})

\* app.py: st.error and st.stop when there is no file; parse_dates needs
\* last_updated, and the continent is derived from country.
app_load_and_process_data(d) ==
    IF ~d.exists THEN Raised("stop")
    ELSE IF "last_updated" \in d.absent THEN Raised("ValueError")
    ELSE IF "country" \in d.absent THEN Raised("KeyError")
    ELSE Loaded(d, {})

Body(f, d) ==
    CASE f = "utils" -> utils_load_data(d)
      [] f = "sunmoon" -> sunmoon_load_data(d)
      [] f = "app" -> app_load_and_process_data(d)

\* st.cache_data without a ttl: the entry does not age out.
NoTtl == 0
\* st.cache_data(ttl=3600) of the Sun & Moon page: one hour.
ttl(f) == IF f = "sunmoon" THEN 1 ELSE NoTtl

Expired(f) == ttl(f) # NoTtl /\ cache[f].age >= ttl(f)
Hit(f) == cache[f].full /\ ~Expired(f)

LoadInit ==
    /\ disk \in Disks
    /\ cache = [f \in CachedLoaders |-> NoEntry]
    /\ reads = [f \in CachedLoaders |-> 0]
    /\ ret = NoRet
    /\ RankIdle
    /\ BucketIdle
    /\ TabIdle
    /\ src = {}
    /\ page = "none"
    /\ pc = "idle"
    /\ errAt = "none"
    /\ userLoc = NoLoc
    /\ df = {}
    /\ opts = NoSets
    /\ sel = NoSets
    /\ rng = NoRanges
    /\ dates = NoDates
    /\ filtered = {}
    /\ trend = {}
    /\ warn = FALSE

\* A script calls the loader and the cache answers.
CallCached ==
    /\ \E f \in CachedLoaders :
         /\ ret.loader \in {"none", f}
         /\ Hit(f)
         /\ ret' = [loader |-> f, read |-> FALSE, seen |-> disk,
                    value |-> cache[f].value]
    /\ UNCHANGED <<disk, cache, reads, pipeVars, rankVars, bucketVars, tabVars>>

\* A script calls the loader and its body runs: the file is read.
CallUncached ==
    /\ \E f \in CachedLoaders :
         /\ ret.loader \in {"none", f}
         /\ ~Hit(f)
         /\ reads[f] < MaxReads
         /\ LET v == Body(f, disk)
            IN  /\ ret' = [loader |-> f, read |-> TRUE, seen |-> disk,
                           value |-> v]
                /\ cache' = [cache EXCEPT ![f] =
                               IF v.outcome = "table"
                               THEN [full |-> TRUE, value |-> v, age |-> 0]
                               ELSE NoEntry]
                /\ reads' = [reads EXCEPT ![f] =
                               IF v.outcome = "table" THEN @ + 1 ELSE @]
    /\ UNCHANGED <<disk, pipeVars, rankVars, bucketVars, tabVars>>

\* The file is replaced, removed or put in place.
ModifySource ==
    /\ disk' \in Disks \ {disk}
    /\ reads' = [f \in CachedLoaders |-> 0]
    /\ UNCHANGED <<cache, ret, pipeVars, rankVars, bucketVars, tabVars>>

\* An hour passes.
Tick ==
    /\ \E f \in CachedLoaders : cache[f].full /\ cache[f].age < MaxAge
    /\ cache' = [f \in CachedLoaders |->
                   IF cache[f].full /\ cache[f].age < MaxAge
                   THEN [cache[f] EXCEPT !.age = @ + 1]
                   ELSE cache[f]]
    /\ UNCHANGED <<disk, reads, ret, pipeVars, rankVars, bucketVars, tabVars>>

LoadNext ==
    \/ CallCached
    \/ CallUncached
    \/ ModifySource
    \/ Tick

LoadSpec == LoadInit /\ [][LoadNext]_vars

\* C11: a load that finds no file, or a file short of a required column,
\* fails and gives no table; a table has only optional columns made up.
C11_LoadFailsWithoutRequired ==
    ret.read =>
      /\ (~ret.seen.exists \/ ret.seen.absent \cap required_cols # {})
            => ret.value.outcome # "table"
      /\ ret.value.synthesized \cap required_cols = {}

\* C12: while the file is unchanged a function reads it at most once, no
\* matter the hours between the calls, and a call gives the table the call
\* before it gave.
C12_ReadOnceWhileUnchanged ==
    [][/\ \A f \in CachedLoaders : reads'[f] <= 1
       /\ (/\ ret' # ret
           /\ ret.loader = ret'.loader
           /\ ret.seen = ret'.seen
           /\ ret.value.outcome = "table")
            => ret'.value = ret.value]_vars

\* C13: a load call after the file was modified gives the table of the
\* file's new content, never the table cached before.
C13_InvalidatedBySourceChange ==
    ret.loader # "none" => ret.value = Body(ret.loader, ret.seen)

----------------------------------------------------------------------------
(* Per-field parse failures at load, in a session over one snapshot.       *)

\* C14: a latitude that is no number or a last_updated that is no date
\* neither aborts the load nor costs the loaded table a row: the table a
\* page works on has the rows of the CSV.
C14_ParseFailureKeepsRow ==
    pc # "idle" =>
      /\ errAt # "load"
      /\ {r.id : r \in df} = {r.id : r \in src}

----------------------------------------------------------------------------
(* Category bucketing and the group aggregates.  A number that need not be *)
(* whole is a fraction <<numerator, denominator>>; NaN has denominator 0.  *)

\* float('inf') of naqi_ranges.
Inf == 1000000
NaN == <<0, 0>>
IsNaN(q) == q[2] = 0

\* pages/3_AirQuality_Insights.py, lines 229-236.
naqi_ranges ==
    << [category |-> "Good", pm25_min |-> 0, pm25_max |-> 30,
        pm10_min |-> 0, pm10_max |-> 50],
       [category |-> "Satisfactory", pm25_min |-> 31, pm25_max |-> 60,
        pm10_min |-> 51, pm10_max |-> 100],
       [category |-> "Moderately Polluted", pm25_min |-> 61, pm25_max |-> 90,
        pm10_min |-> 101, pm10_max |-> 250],
       [category |-> "Poor", pm25_min |-> 91, pm25_max |-> 120,
        pm10_min |-> 251, pm10_max |-> 350],
       [category |-> "Very Poor", pm25_min |-> 121, pm25_max |-> 250,
        pm10_min |-> 351, pm10_max |-> 430],
       [category |-> "Severe", pm25_min |-> 251, pm25_max |-> Inf,
        pm10_min |-> 431, pm10_max |-> Inf] >>

\* lo <= q <= hi of Python on a float; NaN compares false.
InBand(q, lo, hi) ==
    /\ ~IsNaN(q)
    /\ lo * q[2] <= q[1]
    /\ (hi = Inf \/ q[1] <= hi * q[2])

\* get_aqi_category taking the last band that holds either value.
get_aqi_category_MostSevere(pm25, pm10) ==
    LET hits == {i \in DOMAIN naqi_ranges :
                   \/ InBand(pm25, naqi_ranges[i].pm25_min, naqi_ranges[i].pm25_max)
                   \/ InBand(pm10, naqi_ranges[i].pm10_min, naqi_ranges[i].pm10_max)}
    IN  IF hits = {} THEN "Unknown" ELSE naqi_ranges[Max(hits)].category

\* The first band that holds the PM2.5 value or the PM10 value.
get_aqi_category(pm25, pm10) ==
    LET hits == {i \in DOMAIN naqi_ranges :
                   \/ InBand(pm25, naqi_ranges[i].pm25_min, naqi_ranges[i].pm25_max)
                   \/ InBand(pm10, naqi_ranges[i].pm10_min, naqi_ranges[i].pm10_max)}
    IN  IF hits = {} THEN "Unknown" ELSE naqi_ranges[Min(hits)].category

\* The radio above the KPI table.
categories == {"All"} \cup {naqi_ranges[i].category : i \in DOMAIN naqi_ranges}

RECURSIVE SumOf(_, _)
SumOf(t, col) ==
    IF t = {} THEN 0
    ELSE LET r == CHOOSE x \in t : TRUE
         IN  r[col] + SumOf(t \ {r}, col)

\* Series.mean() of a column: nulls are skipped, NaN when nothing is left.
\* unit is 2 for a column held in halves and 1 for the AQI index.
mean(t, col, unit) ==
    LET some == {r \in t : r[col] # Null}
    IN  IF some = {} THEN NaN
        ELSE <<SumOf(some, col), unit * Cardinality(some)>>

\* Air Quality page, lines 251-276: one entry for each selected location.
metrics_list(status_filter) ==
    LET entry(loc) ==
          LET loc_df == {r \in filtered : r.location_name = loc}
              avg_pm25 == mean(loc_df, "pm25", 2)
              avg_pm10 == mean(loc_df, "pm10", 2)
          IN  [Location |-> loc,
               avg_aqi |-> mean(loc_df, "aqi", 1),
               avg_pm25 |-> avg_pm25,
               avg_pm10 |-> avg_pm10,
               avg_humidity |-> mean(loc_df, "humidity", 2),
               category |-> get_aqi_category(avg_pm25, avg_pm10)]
    IN  {m \in {entry(loc) : loc \in sel.location} :
           status_filter = "All" \/ status_filter = m.category}

\* Air Quality page, lines 331-335: groupby('location_name').mean().
pollutant_summary ==
    {[location_name |-> loc,
      aqi |-> mean({r \in filtered : r.location_name = loc}, "aqi", 1),
      pm25 |-> mean({r \in filtered : r.location_name = loc}, "pm25", 2),
      pm10 |-> mean({r \in filtered : r.location_name = loc}, "pm10", 2)] :
       loc \in {r.location_name : r \in filtered}}

\* Analytics, lines 97-108: groupby("country") mean of the AQI index.
fig_aqi ==
    {[country |-> c,
      aqi |-> mean({r \in filtered : r.country = c}, "aqi", 1)] :
       c \in {r.country : r \in filtered}}

\* The Air Quality script is past its KPI table and its summary.
AirqCharted == page = "airq" /\ pc \in {"datecols", "dates"}
\* The Analytics script has drawn its charts (lines 46-48: only of a
\* subset that is not empty).
AnalyticsCharted == page = "analytics" /\ pc = "done" /\ filtered # {}

\* C15: a group aggregate reports a mean of non-null values for each group
\* it lists; a group with no non-null observation of a measure (a selected
\* location, a country) is left out, never listed with NaN.
C15_EmptyGroupsOmitted ==
    /\ AirqCharted =>
         /\ \A status_filter \in categories :
              \A m \in metrics_list(status_filter) :
                /\ ~IsNaN(m.avg_aqi) /\ ~IsNaN(m.avg_pm25)
                /\ ~IsNaN(m.avg_pm10) /\ ~IsNaN(m.avg_humidity)
         /\ \A g \in pollutant_summary :
              ~IsNaN(g.aqi) /\ ~IsNaN(g.pm25) /\ ~IsNaN(g.pm10)
    /\ AnalyticsCharted => \A g \in fig_aqi : ~IsNaN(g.aqi)

----------------------------------------------------------------------------
(* The Top-N tables of Analytics and Reports.  table is the filtered table *)
(* of the page in row order; its temperature and wind are not null (the   *)
(* range tests of the filter saw to that), its AQI index can be.  A       *)
(* ranking lists positions of table.                                       *)

\* Bound: the rows of the filtered table.
MaxTable == 6
\* Bound: the rows of a table whose unstable sort is followed.
MaxUnstable == 3

TableRow(temp, wind, aqi) ==
    [temperature_celsius |-> temp, wind_mph |-> wind, aqi |-> aqi]
RowKinds == {TableRow(1, 2, Null), TableRow(1, 1, 1),
             TableRow(2, 1, 1), TableRow(2, 2, 2)}
Tables == UNION {[1..n -> RowKinds] : n \in 0..MaxTable}

\* dropna(subset=[col]): the positions that stay.
dropna(t, col) == {i \in DOMAIN t : t[i][col] # Null}

\* The positions S in the largest-first (smallest-first) order of col that
\* keeps the row order of equal values.
StableOrder(t, col, ascending, S) ==
    LET Before(i, j) ==
          \/ IF ascending THEN t[i][col] < t[j][col]
                          ELSE t[i][col] > t[j][col]
          \/ t[i][col] = t[j][col] /\ i < j
    IN  [k \in 1..Cardinality(S) |->
           CHOOSE i \in S : Cardinality({j \in S : Before(j, i)}) = k - 1]

\* .head(n).
head(seq, n) == SubSeq(seq, 1, IF Len(seq) < n THEN Len(seq) ELSE n)

\* DataFrame.nlargest(n, col) and nsmallest(n, col), keep='first', of the
\* rows S.
nlargest(t, S, n, col) == head(StableOrder(t, col, FALSE, S), n)
nsmallest(t, S, n, col) == head(StableOrder(t, col, TRUE, S), n)

\* DataFrame.sort_values(col, ascending): kind is 'quicksort', which is not
\* stable: rows of equal value come in any order; nulls come last, in row
\* order.
sort_values(t, col, ascending) ==
    LET some == dropna(t, col)
        nulls == DOMAIN t \ some
        tail == StableOrder(t, col, TRUE, nulls)
    IN  {p \o tail :
           p \in {q \in [1..Cardinality(some) -> some] :
                    /\ \A a, b \in DOMAIN q : a # b => q[a] # q[b]
                    /\ \A a, b \in DOMAIN q :
                         a < b => IF ascending
                                  THEN t[q[a]][col] <= t[q[b]][col]
                                  ELSE t[q[a]][col] >= t[q[b]][col]}}

\* The column, the size and the direction of each table.
Charts ==
    [top_hot |-> [page |-> "analytics", col |-> "temperature_celsius",
                  n |-> 5, ascending |-> FALSE],
     top_cold |-> [page |-> "analytics", col |-> "temperature_celsius",
                   n |-> 5, ascending |-> TRUE],
     top_danger |-> [page |-> "analytics", col |-> "aqi",
                     n |-> 5, ascending |-> FALSE],
     top_safe |-> [page |-> "analytics", col |-> "aqi",
                   n |-> 5, ascending |-> TRUE],
     reports_top_hot |-> [page |-> "reports", col |-> "temperature_celsius",
                          n |-> 10, ascending |-> FALSE],
     reports_top_cold |-> [page |-> "reports", col |-> "temperature_celsius",
                           n |-> 10, ascending |-> TRUE],
     reports_top_wind |-> [page |-> "reports", col |-> "wind_mph",
                           n |-> 10, ascending |-> FALSE],
     reports_top_aqi |-> [page |-> "reports", col |-> "aqi",
                          n |-> 10, ascending |-> FALSE]]
ChartsOf(p) == {c \in DOMAIN Charts : Charts[c].page = p}

RankInit ==
    /\ table \in Tables
    /\ ranking = NoRanking
    /\ LoadIdle
    /\ BucketIdle
    /\ TabIdle
    /\ src = {}
    /\ page = "none"
    /\ pc = "idle"
    /\ errAt = "none"
    /\ userLoc = NoLoc
    /\ df = {}
    /\ opts = NoSets
    /\ sel = NoSets
    /\ rng = NoRanges
    /\ dates = NoDates
    /\ filtered = {}
    /\ trend = {}
    /\ warn = FALSE

\* Analytics, lines 134-147: dropna, then nlargest / nsmallest of 5.
AnalyticsTopN ==
    /\ \E c \in ChartsOf("analytics") :
         LET kept == dropna(table, Charts[c].col)
         IN  ranking' =
               [chart |-> c,
                rows |-> IF Charts[c].ascending
                         THEN nsmallest(table, kept, Charts[c].n, Charts[c].col)
                         ELSE nlargest(table, kept, Charts[c].n, Charts[c].col)]
    /\ UNCHANGED <<table, pipeVars, loadVars, bucketVars, tabVars>>

\* Reports, lines 46-88: sort_values(...).head(10) of a table that is not
\* empty.
ReportsTopN ==
    /\ table # <<>>
    /\ Len(table) <= MaxUnstable
    /\ \E c \in ChartsOf("reports") :
         \E sorted \in sort_values(table, Charts[c].col, Charts[c].ascending) :
           ranking' = [chart |-> c, rows |-> head(sorted, Charts[c].n)]
    /\ UNCHANGED <<table, pipeVars, loadVars, bucketVars, tabVars>>

RankNext ==
    \/ AnalyticsTopN
    \/ ReportsTopN

RankSpec == RankInit /\ [][RankNext]_vars

Listed == {ranking.rows[k] : k \in DOMAIN ranking.rows}
\* a is at least as extreme as b in the chart's direction.
NoLessExtreme(c, a, b) ==
    IF Charts[c].ascending THEN a <= b ELSE a >= b

\* C16: a Top-N table lists only rows whose measure is not null, exactly
\* min(N, rows with a measure) of them, in non-increasing order when the
\* largest come first (non-decreasing when the smallest do), and no row it
\* leaves out with a measure is more extreme than its last row.
C16_TopNOfNonNull ==
    ranking.chart # "none" =>
      LET c == ranking.chart
          col == Charts[c].col
          some == dropna(table, col)
          rows == ranking.rows
      IN  /\ Listed \subseteq some
          /\ Len(rows) = IF Cardinality(some) < Charts[c].n
                         THEN Cardinality(some) ELSE Charts[c].n
          /\ \A a, b \in DOMAIN rows :
               a < b => NoLessExtreme(c, table[rows[a]][col], table[rows[b]][col])
          /\ \A j \in some \ Listed :
               rows # <<>> /\ table[j][col] # Null =>
                 NoLessExtreme(c, table[rows[Len(rows)]][col], table[j][col])

\* C17: in a Top-N table rows of equal measure come in row order, and of
\* several equal rows at the cut the earlier ones are listed.
C17_StableTies ==
    ranking.chart # "none" =>
      LET col == Charts[ranking.chart].col
          rows == ranking.rows
      IN  /\ \A a, b \in DOMAIN rows :
               (a < b /\ table[rows[a]][col] = table[rows[b]][col])
                 => rows[a] < rows[b]
          /\ \A i \in Listed : \A j \in dropna(table, col) \ Listed :
               table[i][col] = table[j][col] => i < j

----------------------------------------------------------------------------
(* Bucketing on its own: the averages of one location given to            *)
(* get_aqi_category, and the AQI index column of a filtered table given   *)
(* to the category pie of the main dashboard and of the Air Quality page. *)

\* Bound: the rows of the index column.
MaxIndexRows == 2

\* Averages on, between and beyond the band edges; one negative, one NaN.
PmValues == {NaN, <<-1, 1>>, <<0, 1>>, <<30, 1>>, <<61, 2>>, <<31, 1>>,
             <<50, 1>>, <<101, 2>>, <<51, 1>>, <<500, 1>>}
\* Index cells that pass the filter's test index <= level: 0, 1, 1.5, 6.
IndexValues == {<<0, 1>>, <<1, 1>>, <<3, 2>>, <<6, 1>>}
IndexColumns == UNION {[1..n -> IndexValues] : n \in 0..MaxIndexRows}

\* app.py, line 149, and pages/3_AirQuality_Insights.py, lines 116-119.
aqi_options(p) ==
    IF p = "app"
    THEN <<"Good", "Moderate", "Unhealthy (SG)", "Unhealthy",
           "Very Unhealthy", "Hazardous">>
    ELSE <<"Good (1)", "Moderate (2)", "Unhealthy for Sensitive Groups (3)",
           "Unhealthy (4)", "Very Unhealthy (5)", "Hazardous (6)">>

\* Series.map(aqi_options) on one cell: NaN for a value that is no key.
AQI_Category(p, q) ==
    LET keys == {k \in DOMAIN aqi_options(p) : ~IsNaN(q) /\ q[1] = k * q[2]}
    IN  IF keys = {} THEN NaNStr ELSE aqi_options(p)[CHOOSE k \in keys : TRUE]

\* value_counts() / groupby('AQI_Category').count(): NaN is no group.
aqi_counts(p, column) ==
    LET label(k) == AQI_Category(p, column[k])
        named == {label(k) : k \in DOMAIN column} \ {NaNStr}
    IN  {[category |-> c,
          count |-> Cardinality({k \in DOMAIN column : label(k) = c})] :
           c \in named}

BucketInit ==
    /\ reading \in [pm25 : PmValues, pm10 : PmValues, index : IndexColumns]
    /\ bucket = NoBucket
    /\ LoadIdle
    /\ RankIdle
    /\ TabIdle
    /\ src = {}
    /\ page = "none"
    /\ pc = "idle"
    /\ errAt = "none"
    /\ userLoc = NoLoc
    /\ df = {}
    /\ opts = NoSets
    /\ sel = NoSets
    /\ rng = NoRanges
    /\ dates = NoDates
    /\ filtered = {}
    /\ trend = {}
    /\ warn = FALSE

\* Air Quality page, line 260: the category of a location's averages.
ClassifyLocation ==
    /\ bucket' = [of |-> "location",
                  category |-> get_aqi_category(reading.pm25, reading.pm10),
                  counts |-> {}]
    /\ UNCHANGED <<reading, pipeVars, loadVars, rankVars, tabVars>>

\* app.py, lines 433-434, and Air Quality page, lines 626-628: the pie of
\* a table that is not empty.
CountCategories ==
    /\ reading.index # <<>>
    /\ \E p \in {"app", "airq"} :
         bucket' = [of |-> p, category |-> "",
                    counts |-> aqi_counts(p, reading.index)]
    /\ UNCHANGED <<reading, pipeVars, loadVars, rankVars, tabVars>>

BucketNext ==
    \/ ClassifyLocation
    \/ CountCategories

BucketSpec == BucketInit /\ [][BucketNext]_vars

\* C18: a PM2.5 of exactly 30 is "Good" and a PM2.5 of 31 is
\* "Satisfactory", whatever the PM10 that comes with it.
C18_BoundaryAtThirty ==
    bucket.of = "location" =>
      /\ reading.pm25 = <<30, 1>> => bucket.category = "Good"
      /\ reading.pm25 = <<31, 1>> => bucket.category = "Satisfactory"

Finite(q) == ~IsNaN(q) /\ q[1] >= 0

\* C19: a pair of finite values that are not negative gets one of the six
\* bands, also when a value lies between two whole band edges; "Unknown"
\* is given only when a value is negative or invalid.
C19_TotalOnValidInput ==
    bucket.of = "location" =>
      /\ (Finite(reading.pm25) /\ Finite(reading.pm10))
            => bucket.category \in categories \ {"All"}
      /\ bucket.category = "Unknown"
            => ~Finite(reading.pm25) \/ ~Finite(reading.pm10)

RECURSIVE Total(_)
Total(counts) ==
    IF counts = {} THEN 0
    ELSE LET g == CHOOSE x \in counts : TRUE
         IN  g.count + Total(counts \ {g})

\* C20: an index of 1..6 gets its named category and any other value gets
\* "Unknown"; the rows so labelled are counted, so the counts of the
\* category distribution add up to the number of filtered rows.
C20_UnknownIndexCounted ==
    bucket.of \in {"app", "airq"} =>
      /\ \A k \in DOMAIN reading.index :
           LET q == reading.index[k]
               label == AQI_Category(bucket.of, q)
           IN  IF \E i \in 1..6 : q = <<i, 1>>
               THEN label = aqi_options(bucket.of)[q[1]]
               ELSE label = "Unknown"
      /\ Total(bucket.counts) = Len(reading.index)

----------------------------------------------------------------------------
(* The composite pollution score of the Air Quality page.                  *)

\* p <= q on fractions that are not NaN.
Leq(p, q) == p[1] * q[2] <= q[1] * p[2]

\* Overall_Score with the three weights the same.
Overall_Score_EqualWeights(g) ==
    IF IsNaN(g.aqi) \/ IsNaN(g.pm25) \/ IsNaN(g.pm10) THEN NaN
    ELSE <<g.aqi[1] * g.pm25[2] * g.pm10[2]
             + g.pm25[1] * g.aqi[2] * g.pm10[2]
             + g.pm10[1] * g.aqi[2] * g.pm25[2],
           3 * g.aqi[2] * g.pm25[2] * g.pm10[2]>>

\* Lines 336-340: index * 0.5 + PM2.5 * 0.3 + PM10 * 0.2 of a group's means;
\* NaN when a mean is NaN.
Overall_Score(g) ==
    IF IsNaN(g.aqi) \/ IsNaN(g.pm25) \/ IsNaN(g.pm10) THEN NaN
    ELSE <<5 * g.aqi[1] * g.pm25[2] * g.pm10[2]
             + 3 * g.pm25[1] * g.aqi[2] * g.pm10[2]
             + 2 * g.pm10[1] * g.aqi[2] * g.pm25[2],
           10 * g.aqi[2] * g.pm25[2] * g.pm10[2]>>

\* Lines 342-343: idxmax() and idxmin() skip NaN; of equal scores either
\* group has the extreme score.
most_polluted ==
    LET scored == {g \in pollutant_summary : ~IsNaN(Overall_Score(g))}
    IN  {g \in scored : \A h \in scored : Leq(Overall_Score(h), Overall_Score(g))}
least_polluted ==
    LET scored == {g \in pollutant_summary : ~IsNaN(Overall_Score(g))}
    IN  {g \in scored : \A h \in scored : Leq(Overall_Score(g), Overall_Score(h))}

\* 20 n times the weighted sum of a location's filtered rows, n the number
\* of its rows: the index counts whole, PM2.5 and PM10 count in halves.
WeightedSum(loc) ==
    LET rows == {r \in filtered : r.location_name = loc}
    IN  10 * SumOf(rows, "aqi") + 3 * SumOf(rows, "pm25") + 2 * SumOf(rows, "pm10")

----------------------------------------------------------------------------
(* Rankings of nothing.                                                    *)

\* C22: a ranking of an empty filtered table, or of a table whose ranking
\* measure is null in every row, is empty (and is made without raising).
C22_NothingRankedOfNothing ==
    (ranking.chart # "none" /\ dropna(table, Charts[ranking.chart].col) = {})
      => ranking.rows = <<>>

----------------------------------------------------------------------------
(* Progress of a page script: a block that can run does run.               *)

FairSpec == Init /\ [][Next]_vars /\ WF_vars(Next)

\* C23: whatever the location service does, silence included, the lookup
\* returns, with a detected location or the fallback, and the script goes
\* on to its sidebar.
C23_LookupReturns == (pc = "geo") ~> (pc = "continent")

----------------------------------------------------------------------------
(* Failures of the geolocation lookup.                                     *)

\* C24: a failed lookup does not raise and gives a fixed default pair of
\* country and continent, the same pair on every page.
C24_OneDefaultEverywhere ==
    userLoc.failed =>
      /\ pc # "error"
      /\ \A answer \in GeoFailures :
           /\ get_user_location(answer)
                = [country |-> userLoc.country, continent |-> userLoc.continent]
           /\ get_user_country_and_continent(answer)
                = [country |-> userLoc.country, continent |-> userLoc.continent]

----------------------------------------------------------------------------
(* The panel left at its defaults.                                         *)

\* The value a slider of filter_panel shows before it is moved: the pair
\* int(min), int(max) it was built with.
DefaultRange(t, col) ==
    [lo |-> IntOf(Min(Values(t, col))), hi |-> IntOf(Max(Values(t, col)))]

\* Every checkbox of the panel still checked, every slider unmoved.
PanelAtDefaults ==
    /\ sel = opts
    /\ rng.temp = DefaultRange(df, "temperature_celsius")
    /\ rng.humidity = DefaultRange(df, "humidity")
    /\ rng.wind = DefaultRange(df, "wind_mph")

\* C25: with every control of filter_panel at its default, the filtered
\* subset of Analytics and Reports is the set of all rows whose temperature,
\* humidity and wind are non-null; no row is dropped, a row whose value is a
\* fractional extreme of its column included.
C25_DefaultsKeepEveryRow ==
    (page \in {"analytics", "reports"} /\ pc = "done" /\ PanelAtDefaults)
      => filtered = {r \in df : /\ r.temperature_celsius # Null
                                /\ r.humidity # Null
                                /\ r.wind_mph # Null}

----------------------------------------------------------------------------
(* The Sun & Moon Explorer, which leaves the continent out of its filter.  *)

\* C26: after any interaction with filter_panel every selected country
\* belongs to a selected continent and every selected location to a
\* selected country, so the filter of the Sun & Moon page, on country and
\* location alone, selects the same rows as the filter on continent, country
\* and location.
C26_ContinentTestRedundant ==
    (page \in PanelPages /\ PastLocation) =>
      /\ \A c \in sel.country :
           /\ \E r \in df : r.country = c
           /\ \A r \in df : r.country = c => r.continent \in sel.continent
      /\ \A l \in sel.location :
           \E r \in df : r.location_name = l /\ r.country \in sel.country
      /\ (page = "sunmoon" /\ pc = "done") =>
           filtered = AnalyticsFiltered(df, sel, rng)

\* The Sun & Moon page shows rows while a continent of the table is left
\* out of the selection.
C26_Witness ==
    /\ page = "sunmoon"
    /\ pc = "done"
    /\ filtered # {}
    /\ \E r \in df : r.continent \notin sel.continent

----------------------------------------------------------------------------
(* The band of a pair of whole readings.                                   *)

Whole(q) == ~IsNaN(q) /\ q[2] = 1 /\ q[1] >= 0

\* The positions, in Good-to-Severe order, of the bands whose PM2.5 range,
\* or whose PM10 range, holds the value.
Pm25Bands(q) ==
    {i \in DOMAIN naqi_ranges :
       InBand(q, naqi_ranges[i].pm25_min, naqi_ranges[i].pm25_max)}
Pm10Bands(q) ==
    {i \in DOMAIN naqi_ranges :
       InBand(q, naqi_ranges[i].pm10_min, naqi_ranges[i].pm10_max)}

\* C27: for whole inputs that are not negative, each value lies in one
\* band and get_aqi_category returns the less severe of the band of pm25
\* and the band of pm10; so the location is reported in a band at least as
\* severe as the band of pm25 only when pm10 is in that band or a worse one.
C27_LessSevereBand ==
    (bucket.of = "location" /\ Whole(reading.pm25) /\ Whole(reading.pm10)) =>
      /\ Cardinality(Pm25Bands(reading.pm25)) = 1
      /\ Cardinality(Pm10Bands(reading.pm10)) = 1
      /\ \A i \in Pm25Bands(reading.pm25), j \in Pm10Bands(reading.pm10) :
           /\ bucket.category = naqi_ranges[IF i <= j THEN i ELSE j].category
           /\ \A k \in DOMAIN naqi_ranges :
                (bucket.category = naqi_ranges[k].category /\ k >= i) => j >= i

\* A PM2.5 of 500 with a PM10 of 51: "Severe" and "Satisfactory", and the
\* location is reported "Satisfactory".
C27_Witness ==
    /\ bucket.of = "location"
    /\ reading.pm25 = <<500, 1>>
    /\ reading.pm10 = <<51, 1>>
    /\ bucket.category = "Satisfactory"

----------------------------------------------------------------------------
(* The defaults of the selection controls.                                 *)

\* C28: whatever the table and the detected or fallback location, a
\* selection control of continent, country or location is built without an
\* exception when its options are not empty, the default country being in
\* the table or not, and what the control holds is among its options.
C28_DefaultsDefined ==
    /\ (pc = "error" /\ errAt \in {"continent", "country", "location"})
          => opts[errAt] = {}
    /\ PastCountry => sel.continent \subseteq opts.continent
    /\ PastCountry => sel.country \subseteq opts.country
    /\ PastLocation => sel.location \subseteq opts.location

----------------------------------------------------------------------------
(* The date controls of the trend page.                                    *)

\* The rows the year, month and day tests of lines 146-148 keep when the
\* day selection is the single day d.
DatePredicate(t, d, day) ==
    {r \in t : /\ r.Year \in d.years
               /\ (IF d.months # {} THEN r.Month \in d.months ELSE TRUE)
               /\ r.Day = day}

\* C29: with a year selected on the trend page, every month offered occurs
\* in a row of a selected year and every day offered occurs in a row of a
\* selected year and a selected month, so that one offered day chosen with
\* the current years and months never leaves the date tests without a row.
C29_DateOptionsCascade ==
    (page = "trend" /\ pc \in {"filter", "done"} /\ dates.years # {}) =>
      /\ \A m \in MonthOptions(df, dates.years) :
           \E r \in df : r.Month = m /\ r.Year \in dates.years
      /\ \A day \in DayOptions(df, dates.months) :
           DatePredicate(df, dates, day) # {}

----------------------------------------------------------------------------
(* The six tabs of the main dashboard.  The sidebar has been set and the   *)
(* script has drawn the page once; the user then works in the tabs, and    *)
(* every change of a widget runs the script again with the other widgets   *)
(* as they are.                                                            *)

\* Bound: the widgets of the tabs the user has set.
MaxTouched == 1

\* st.multiselect(options=, default=, key=): the value the user gave it
\* while it is built with the same options, its default otherwise.
multiselect(w, key, options, default) ==
    IF w[key].set /\ w[key].options = options THEN w[key].value ELSE default

\* tab_df with tab 1's frame in the place of df_filtered in the later tabs.
tab_df_OfFirstTab(f, selected_countries, w, n) ==
    LET first == {r \in f :
                    /\ r.country \in multiselect(w, <<1, "country_filter">>,
                                                       selected_countries,
                                                       selected_countries)}
        base == IF n = 1 THEN f ELSE first
        tab_countries == multiselect(w, <<n, "country_filter">>,
                                     selected_countries, selected_countries)
        by_country == {r \in base : r.country \in tab_countries}
        location_options == {r.location_name : r \in by_country}
        tab_locations == multiselect(w, <<n, "location_filter">>,
                                     location_options, location_options)
        rows == {r \in by_country : r.location_name \in tab_locations}
    IN  [country_options |-> selected_countries,
         countries |-> tab_countries,
         location_options |-> location_options,
         locations |-> tab_locations,
         rows |-> rows,
         warn |-> rows = {},
         added |-> IF n = 5 /\ rows # {} THEN {"AQI_Category"} ELSE {}]

\* app.py, lines 241-260 and the same block of the other tabs: the two
\* multiselects, the tab's frame, its warning, and the column line 433 adds
\* to the frame of tab 5, which boolean indexing made a copy.
tab_df(f, selected_countries, w, n) ==
    LET tab_countries == multiselect(w, <<n, "country_filter">>,
                                     selected_countries, selected_countries)
        by_country == {r \in f : r.country \in tab_countries}
        location_options == {r.location_name : r \in by_country}
        tab_locations == multiselect(w, <<n, "location_filter">>,
                                     location_options, location_options)
        rows == {r \in by_country : r.location_name \in tab_locations}
    IN  [country_options |-> selected_countries,
         countries |-> tab_countries,
         location_options |-> location_options,
         locations |-> tab_locations,
         rows |-> rows,
         warn |-> rows = {},
         added |-> IF n = 5 /\ rows # {} THEN {"AQI_Category"} ELSE {}]

\* A widget built with other options is a new widget: what the user gave
\* the old one is dropped.
Kept(w, drawn) ==
    [k \in Keys |->
       IF k[2] = "location_filter" /\ w[k].options # drawn[k[1]].location_options
       THEN NoWidgets[k] ELSE w[k]]

\* The page drawn once: continents and countries chosen in the sidebar of
\* lines 128-144, its two sliders as they are first drawn (lines 149-153), a
\* country selected and a subset that is not empty (lines 160-172), the
\* tabs at their defaults.
TabInit ==
    /\ LoadIdle
    /\ RankIdle
    /\ BucketIdle
    /\ src \in Snapshots
    /\ page = "app"
    /\ pc = "done"
    /\ errAt = "none"
    /\ userLoc \in {[country |-> get_user_location(a).country,
                     continent |-> get_user_location(a).continent,
                     failed |-> a \in GeoFailures] : a \in {"fail"}}
    /\ df = load_and_process_data(src)
    /\ Values(df, "temperature_celsius") # {}
    /\ opts \in {o \in [continent : {{r.continent : r \in df}},
                         country : SUBSET {r.country : r \in df},
                         location : {{}}] : TRUE}
    /\ sel \in [continent : SUBSET opts.continent,
                country : SUBSET opts.country,
                location : {{}}]
    /\ sel.continent # {}
    /\ opts.country = CountryOptions(df, sel.continent)
    /\ sel.country # {}
    /\ rng = [NoRanges EXCEPT !.max_aqi = 6,
                              !.temp = DefaultRange(df, "temperature_celsius")]
    /\ dates = NoDates
    /\ filtered = AppFiltered(df, sel, rng)
    /\ filtered # {}
    /\ trend = {}
    /\ warn = FALSE
    /\ widgets = NoWidgets
    /\ tabs = [n \in Tabs |-> tab_df(filtered, sel.country, widgets, n)]

\* The script run a change of a tab's widget starts: the cached table and
\* location, the sidebar as it is, df_filtered computed again, then the
\* six tabs.
TabRerun(w) ==
    /\ Cardinality({k \in Keys : w[k].set}) <= MaxTouched
    /\ filtered' = AppFiltered(df, sel, rng)
    /\ tabs' = [n \in Tabs |-> tab_df(filtered', sel.country, w, n)]
    /\ widgets' = Kept(w, tabs')
    /\ warn' = (filtered' = {})
    /\ UNCHANGED <<loadVars, rankVars, bucketVars, src, page, pc, errAt, userLoc, df, opts, sel, rng, dates, trend>>

\* The user changes the country multiselect of a tab.
SelectTabCountries ==
    \E n \in Tabs : \E c \in SUBSET tabs[n].country_options :
      /\ c # tabs[n].countries
      /\ TabRerun([widgets EXCEPT ![<<n, "country_filter">>] =
                     [set |-> TRUE, options |-> tabs[n].country_options,
                      value |-> c]])

\* The user changes the location multiselect of a tab.
SelectTabLocations ==
    \E n \in Tabs : \E l \in SUBSET tabs[n].location_options :
      /\ l # tabs[n].locations
      /\ TabRerun([widgets EXCEPT ![<<n, "location_filter">>] =
                     [set |-> TRUE, options |-> tabs[n].location_options,
                      value |-> l]])

TabNext ==
    \/ SelectTabCountries
    \/ SelectTabLocations

TabSpec == TabInit /\ [][TabNext]_vars

\* What a tab shows, of a subset f and the globally selected countries.
TabShowsOwnRows(n) ==
    /\ tabs[n].rows = {r \in filtered : /\ r.country \in tabs[n].countries
                                         /\ r.location_name \in tabs[n].locations}
    /\ tabs[n].country_options = sel.country
    /\ tabs[n].location_options =
         {r.location_name : r \in {x \in filtered : x.country \in tabs[n].countries}}

====
